---- MODULE Spec2Model ----
(***************************************************************************)
(* A model of the discovery-to-ingestion pipeline of multimodal_edu:       *)
(*   app/ingestion.py          run_ingestion and its video handler         *)
(*   app/discover_resources.py the crawler, the channel/playlist chain and *)
(*                             the discovery orchestrator                  *)
(* Every component has its own specification (SpecIngest, SpecCrawl, ...); *)
(* a specification leaves the variables of the other components alone.     *)
(***************************************************************************)
EXTENDS Integers, Sequences, FiniteSets, TLC

VARIABLES
    \* ---- ingestion.py: run_ingestion ----
    resources,      \* the discovery manifest loaded at the start of the run
    ing_i,          \* position of the for-loop over resources (1-based)
    processed,      \* the list of enriched records
    s3_ingest,      \* keys present in the bucket (artifacts and job metadata)
    job,            \* <<the persisted ingestion_metadata>>, or NoJob
    ingPc,          \* "loop", "done", "aborted" (an exception left the loop), "put_failed"
    raisedAt,       \* history: manifest positions whose handler raised
    dispatched,     \* history: manifest positions the loop body ran for
    bucketSet       \* whether S3_BUCKET is set in the environment

VARIABLES
    \* ---- discover_resources.py: scrape_ocw_pdfs ----
    visited,        \* the set of page URLs scrape_page has been entered for
    results,        \* the list of pdf Resources found so far
    stack,          \* the active calls of scrape_page, innermost last
    site,           \* the response of the site for every URL fetched so far
    fetchLog,       \* history: the URLs requests.get was called with, in order
    crawlPc         \* "start", "running", "done"

VARIABLES
    \* ---- discover_resources.py: list_all_playlists ----
    channelPlaylists, \* the playlists the provider holds for the channel
    playlists,        \* the list built by the loop
    next_page_token,  \* the token of the next request, None at first
    tokenLog,         \* history: the pageToken of every request, in order
    plPc              \* "loop", "done"

VARIABLES
    \* ---- discover_resources.py: __main__ ----
    cfg,            \* load_config(): ocw_courses, youtube_playlists
    apiKey,         \* whether YOUTUBE_API_KEY is set
    all_resources,  \* the aggregate list
    d_i,            \* position of the loop over cfg.ocw_courses
    d_j,            \* position of the loop over cfg.youtube_playlists
    discPc,         \* "run", "done", "crashed" (an exception ended the run)
    discError,      \* the exception that ended the run, or None
    writes,         \* the manifests put in the bucket, in order
    lastCall,       \* history: the last call of fetch_youtube_playlists_by_title
    coursesDone,    \* history: positions of the courses crawled
    channelsDone,   \* history: positions of the channels whose call returned
    zeroAt          \* history: positions of the channels resolved to no item

ingestVars == <<resources, ing_i, processed, s3_ingest, job, ingPc, raisedAt, dispatched,
               bucketSet>>
crawlVars == <<visited, results, stack, site, fetchLog, crawlPc>>

plVars == <<channelPlaylists, playlists, next_page_token, tokenLog, plPc>>
discVars == <<cfg, apiKey, all_resources, d_i, d_j, discPc, discError, writes,
              lastCall, coursesDone, channelsDone, zeroAt>>

vars == <<ingestVars, crawlVars, plVars, discVars>>

-----------------------------------------------------------------------------
(* Bounds of the model *)

MaxManifest == 5
\* anchors on one page
MaxLinks == 2
\* nesting of scrape_page calls the model follows; the site has three pages
\* (the course home page and the pages of hrefA and hrefX), so a crawl that
\* enters every page once never nests deeper than three calls
MaxDepth == 4
\* playlists of the channel whose playlists are enumerated
MaxPlaylists == 120
\* courses and channels of the configuration
MaxCourses == 2
MaxChannels == 2

-----------------------------------------------------------------------------
(* Values shared by the components *)

\* A Python string is a tuple of tokens; the empty string is <<>>.
EmptyStr == <<>>
\* a key a Python dict does not hold
Absent == <<"<absent>">>
\* Python's None
None == <<"<None>">>

\* all sequences over S of length at most n
SeqsUpTo(S, n) == UNION {[1..k -> S] : k \in 0..n}

\* the bucket holds no job yet; a persisted job is <<ingestion_metadata>>
NoJob == <<>>

\* the components a specification does not run
IngestIdle ==
    /\ resources = <<>> /\ ing_i = 1 /\ processed = <<>> /\ s3_ingest = {}
    /\ job = NoJob /\ ingPc = "idle" /\ raisedAt = {} /\ dispatched = {}
    /\ bucketSet = TRUE

CrawlIdle ==
    /\ visited = {} /\ results = <<>> /\ stack = <<>> /\ site = <<>>
    /\ fetchLog = <<>> /\ crawlPc = "idle"

PlaylistsIdle ==
    /\ channelPlaylists = <<>> /\ playlists = <<>> /\ next_page_token = None
    /\ tokenLog = <<>> /\ plPc = "idle"

NoCall == [handle |-> 0, titles |-> <<>>, items |-> <<>>, all_playlists |-> <<>>,
           listed |-> <<>>, raised |-> FALSE]

DiscoveryIdle ==
    /\ cfg = [ocw_courses |-> <<>>, youtube_playlists |-> <<>>] /\ apiKey = FALSE
    /\ all_resources = <<>> /\ d_i = 1 /\ d_j = 1 /\ discPc = "idle"
    /\ discError = None /\ writes = <<>> /\ lastCall = NoCall
    /\ coursesDone = {} /\ channelsDone = {} /\ zeroAt = {}

-----------------------------------------------------------------------------
(* discover_resources.py: strings *)

\* s.startswith(p), s.endswith(p) and `p in s`, on tuples of tokens
StartsWith(s, p) == Len(p) <= Len(s) /\ SubSeq(s, 1, Len(p)) = p
EndsWith(s, p) == Len(p) <= Len(s) /\ SubSeq(s, Len(s) - Len(p) + 1, Len(s)) = p
Contains(s, p) == \E k \in 0..(Len(s) - Len(p)) : SubSeq(s, k + 1, k + Len(p)) = p

\* str.lower() of one token
LowerTok(t) ==
    CASE t \in {"Lecture", "LECTURE"} -> "lecture"
      [] t \in {"Videos", "VIDEOS"}   -> "videos"
      [] t = "Slides"                 -> "slides"
      [] t = "Notes"                  -> "notes"
      [] t = "Recitation"             -> "recitation"
      [] t = "Exam"                   -> "exam"
      [] t = "Review"                 -> "review"
      [] t = "Syllabus"               -> "syllabus"
      [] t = "Related"                -> "related"
      [] OTHER                        -> t

\* str.lower()
Lower(s) == [k \in 1..Len(s) |-> LowerTok(s[k])]

-----------------------------------------------------------------------------
(* discover_resources.py: scrape_ocw_pdfs *)

Host == <<"https://ocw.mit.edu">>

\* the course crawled
course_handle == "c1"

base_url == Host \o <<"/courses/", course_handle, "/">>

\* classify_pdf(link_text); "slide", "note" and "lecture" are found in the
\* tokens that hold them
classify_pdf(link_text) ==
    LET txt == Lower(link_text) IN
    IF Contains(txt, <<"slides">>) THEN "slides"
    ELSE IF Contains(txt, <<"notes">>) \/ Contains(txt, <<"lecture">>) THEN "notes"
    ELSE "unknown"

\* the anchors a page may hold: a sub-page of the course, a sub-page of
\* another course, a site-relative pdf
Anchor(h, t) == [href |-> h, text |-> t]
hrefA == <<"/courses/", "c1", "/pages/", "a">>
hrefX == <<"/courses/", "c2", "/pages/", "x">>
hrefPdf == <<"/courses/", "c1", "/resources/", "l1", ".pdf">>
Anchors == {Anchor(hrefA, <<"Syllabus">>), Anchor(hrefX, <<"Related">>),
            Anchor(hrefPdf, <<"Lecture", "Slides">>)}

\* what requests.get(url) gives: the anchors of the page, or an exception
PageOk(as) == [ok |-> TRUE, anchors |-> as]
FetchFails == [ok |-> FALSE, anchors |-> <<>>]
Responses == {PageOk(as) : as \in SeqsUpTo(Anchors, MaxLinks)} \cup {FetchFails}

\* full_url of a pdf link
PdfUrl(href) == IF StartsWith(href, <<"http">>) THEN href ELSE Host \o href

\* the Resource appended for a pdf link found on page url
PdfResource(a, url) ==
    [url |-> PdfUrl(a.href), type |-> "pdf", subtype |-> classify_pdf(a.text),
     course_handle |-> course_handle, page_url |-> url]

\* the first loop of scrape_page: the Resources of the pdf links, in order
RECURSIVE FindPdfs(_, _)
FindPdfs(as, url) ==
    IF as = <<>> THEN <<>>
    ELSE (IF EndsWith(Head(as).href, <<".pdf">>) THEN <<PdfResource(Head(as), url)>> ELSE <<>>)
         \o FindPdfs(Tail(as), url)

\* href.startswith("/courses/") and "/pages/" in href
IsSubPage(href) == StartsWith(href, <<"/courses/">>) /\ Contains(href, <<"/pages/">>)

\* VisitedAdd with the add left out: the URL is not recorded
VisitedAddForgotten(v, url) == v

\* visited.add(url)
VisitedAdd(v, url) == v \cup {url}

\* a call frame of scrape_page in its second loop: k is the next anchor
Frame(url, as) == [url |-> url, anchors |-> as, k |-> 1]

\* OnScrapeException without the try/except: the exception leaves every
\* active call of scrape_page
OnScrapeExceptionPropagates(st) == <<>>

\* except Exception as e: logger.error(...): the call returns to its caller
OnScrapeException(st) == st

\* scrape_page(url) is called with call stack st: up to the second loop
ScrapePage(url, st) ==
    IF url \in visited
    THEN /\ stack' = st
         /\ UNCHANGED <<visited, results, site, fetchLog>>
    ELSE /\ visited' = VisitedAdd(visited, url)
         /\ fetchLog' = Append(fetchLog, url)
         /\ \E resp \in Responses :
              /\ url \in DOMAIN site => resp = site[url]
              /\ site' = IF url \in DOMAIN site THEN site ELSE (url :> resp) @@ site
              /\ IF resp.ok
                 THEN /\ results' = results \o FindPdfs(resp.anchors, url)
                      /\ stack' = Append(st, Frame(url, resp.anchors))
                 ELSE /\ results' = results
                      /\ stack' = OnScrapeException(st)

Top == stack[Len(stack)]
\* the caller's frame moves on to its next anchor
Advanced == [stack EXCEPT ![Len(stack)].k = @ + 1]

InitCrawl ==
    /\ IngestIdle /\ PlaylistsIdle /\ DiscoveryIdle
    /\ visited = {} /\ results = <<>> /\ stack = <<>> /\ site = <<>>
    /\ fetchLog = <<>> /\ crawlPc = "start"

\* scrape_page(base_url)
CrawlStart ==
    /\ crawlPc = "start"
    /\ crawlPc' = "running"
    /\ ScrapePage(base_url, stack)
    /\ UNCHANGED <<ingestVars, plVars, discVars>>

\* second loop, a sub-page link not yet visited: scrape_page(full_url)
CrawlFollowLink ==
    /\ crawlPc = "running" /\ stack # <<>> /\ Top.k <= Len(Top.anchors)
    /\ Len(stack) < MaxDepth
    /\ LET href == Top.anchors[Top.k].href
           full_url == Host \o href IN
       /\ IsSubPage(href)
       /\ full_url \notin visited
       /\ ScrapePage(full_url, Advanced)
    /\ UNCHANGED crawlPc
    /\ UNCHANGED <<ingestVars, plVars, discVars>>

\* second loop, any other link: nothing happens
CrawlSkipLink ==
    /\ crawlPc = "running" /\ stack # <<>> /\ Top.k <= Len(Top.anchors)
    /\ LET href == Top.anchors[Top.k].href
           full_url == Host \o href IN
       ~(IsSubPage(href) /\ full_url \notin visited)
    /\ stack' = Advanced
    /\ UNCHANGED <<visited, results, site, fetchLog, crawlPc>>
    /\ UNCHANGED <<ingestVars, plVars, discVars>>

\* the second loop of the innermost call is over: it returns
CrawlReturn ==
    /\ crawlPc = "running" /\ stack # <<>> /\ Top.k > Len(Top.anchors)
    /\ stack' = SubSeq(stack, 1, Len(stack) - 1)
    /\ UNCHANGED <<visited, results, site, fetchLog, crawlPc>>
    /\ UNCHANGED <<ingestVars, plVars, discVars>>

\* scrape_page(base_url) has returned: return results
CrawlFinish ==
    /\ crawlPc = "running" /\ stack = <<>>
    /\ crawlPc' = "done"
    /\ UNCHANGED <<visited, results, stack, site, fetchLog>>
    /\ UNCHANGED <<ingestVars, plVars, discVars>>

NextCrawl == CrawlStart \/ CrawlFollowLink \/ CrawlSkipLink \/ CrawlReturn \/ CrawlFinish

SpecCrawl == InitCrawl /\ [][NextCrawl]_vars

\* the crawl is one sequential call: it keeps running while it can
FairCrawl == SpecCrawl /\ WF_vars(NextCrawl)

-----------------------------------------------------------------------------
(* Claims about scrape_ocw_pdfs *)

\* C4: no page URL is fetched twice: the number of fetch calls made is the
\* size of the visited set, and the fetched URLs are pairwise different.
C4_NoUrlFetchedTwice ==
    /\ Len(fetchLog) = Cardinality(visited)
    /\ \A a, b \in 1..Len(fetchLog) : fetchLog[a] = fetchLog[b] => a = b

\* page u holds a link to page w
LinksTo(u, w) == \E k \in 1..Len(site[u].anchors) : Host \o site[u].anchors[k].href = w

\* a page links to itself, or two pages link to each other
SiteHasCycle == \E u, w \in DOMAIN site : LinksTo(u, w) /\ LinksTo(w, u)

\* witness of C4: a crawl over a site with a cycle has fetched three pages and
\* has come back to a link whose page is already visited
C4_Witness ==
    /\ SiteHasCycle /\ Len(fetchLog) = 3
    /\ stack # <<>> /\ Top.k <= Len(Top.anchors)
    /\ IsSubPage(Top.anchors[Top.k].href)
    /\ Host \o Top.anchors[Top.k].href \in visited

\* C5: the crawl terminates on every site graph, cyclic ones included.
C5_CrawlTerminates == <>(crawlPc = "done")

\* witness of C5: the crawl of a site with a cycle between two pages is over
C5_Witness ==
    /\ crawlPc = "done"
    /\ \E u, w \in DOMAIN site : u # w /\ LinksTo(u, w) /\ LinksTo(w, u)

\* the pdf Resources of the pages fetched, in the order of the fetches
RECURSIVE ResultsOf(_)
ResultsOf(log) ==
    IF log = <<>> THEN <<>>
    ELSE ResultsOf(SubSeq(log, 1, Len(log) - 1))
         \o (IF site[log[Len(log)]].ok
             THEN FindPdfs(site[log[Len(log)]].anchors, log[Len(log)]) ELSE <<>>)

\* the sub-pages a fetched page links to
SubPagesOf(u) ==
    {Host \o site[u].anchors[k].href :
        k \in {n \in 1..Len(site[u].anchors) : IsSubPage(site[u].anchors[n].href)}}

\* C12: a page whose fetch fails is the only thing abandoned: the results hold
\* the pdfs of every page fetched with success, those found before a failure
\* included, and when the crawl is over every sub-page linked from a page
\* that did not fail has been visited.
C12_FetchFailureAbandonsOnePage ==
    /\ results = ResultsOf(fetchLog)
    /\ crawlPc = "done" =>
         /\ base_url \in visited
         /\ \A u \in DOMAIN site : site[u].ok => SubPagesOf(u) \subseteq visited

\* witness of C12: the crawl is over, the fetch of one page failed, another
\* page was fetched after it and a pdf was collected
C12_Witness ==
    /\ crawlPc = "done" /\ results # <<>>
    /\ \E k \in 1..(Len(fetchLog) - 1) :
          ~site[fetchLog[k]].ok /\ site[fetchLog[k + 1]].ok

\* C14 (as claimed): every page fetched is the course's home page or a
\* sub-page of the same course.
C14_FetchesStayInCourse ==
    \A k \in 1..Len(fetchLog) :
        \/ fetchLog[k] = base_url
        \/ StartsWith(fetchLog[k], Host \o <<"/courses/", course_handle, "/pages/">>)

-----------------------------------------------------------------------------
(* discover_resources.py: resolve_channel_id, list_all_playlists *)

\* maxResults of playlists().list
PageSize == 50

Playlist(id, title) == [id |-> id, title |-> title]

\* a continuation token of the provider: opaque to the caller
Token(offset) == <<"page@", offset>>

Min(a, b) == IF a < b THEN a ELSE b

\* youtube.playlists().list(channelId, maxResults=50, pageToken=tok).execute():
\* the provider serves the channel's playlists PageSize at a time and gives a
\* nextPageToken while playlists remain
PlaylistsPage(all, tok) ==
    LET offset == IF tok = None THEN 0 ELSE tok[2]
        last == Min(offset + PageSize, Len(all)) IN
    [items |-> SubSeq(all, offset + 1, last),
     nextPageToken |-> IF last < Len(all) THEN Token(last) ELSE None]

\* Extend written as an assignment: the page replaces the list
ExtendReplaces(acc, items) == items

\* playlists.extend(res.get("items", []))
Extend(acc, items) == acc \o items

\* one pass of `while True` in list_all_playlists
PlaylistsLoop(all, acc, tok) ==
    LET res == PlaylistsPage(all, tok) IN
    [playlists |-> Extend(acc, res.items),
     next_page_token |-> res.nextPageToken,
     break |-> res.nextPageToken = None]

\* list_all_playlists(youtube, channel_id), for a channel holding `all`
RECURSIVE list_all_playlists_from(_, _, _)
list_all_playlists_from(all, acc, tok) ==
    LET it == PlaylistsLoop(all, acc, tok) IN
    IF it.break THEN it.playlists
    ELSE list_all_playlists_from(all, it.playlists, it.next_page_token)

list_all_playlists(all) == list_all_playlists_from(all, <<>>, None)

\* res['items'][0]['id'] of resolve_channel_id: indexing an empty list raises
\* IndexError
resolve_channel_id(items) ==
    IF Len(items) = 0
    THEN [raised |-> TRUE, exc |-> <<"IndexError">>, channel_id |-> None]
    ELSE [raised |-> FALSE, exc |-> None, channel_id |-> items[1].id]

InitPlaylists ==
    /\ IngestIdle /\ CrawlIdle /\ DiscoveryIdle
    /\ \E n \in 0..MaxPlaylists :
         channelPlaylists = [k \in 1..n |-> Playlist(k, <<"Playlist", k>>)]
    /\ playlists = <<>>
    /\ next_page_token = None
    /\ tokenLog = <<>>
    /\ plPc = "loop"

\* one request of list_all_playlists
ListPlaylistsPage ==
    /\ plPc = "loop"
    /\ LET it == PlaylistsLoop(channelPlaylists, playlists, next_page_token) IN
       /\ tokenLog' = Append(tokenLog, next_page_token)
       /\ playlists' = it.playlists
       /\ next_page_token' = it.next_page_token
       /\ plPc' = IF it.break THEN "done" ELSE "loop"
    /\ UNCHANGED channelPlaylists
    /\ UNCHANGED <<ingestVars, crawlVars, discVars>>

NextPlaylists == ListPlaylistsPage

SpecPlaylists == InitPlaylists /\ [][NextPlaylists]_vars

-----------------------------------------------------------------------------
(* Claims about list_all_playlists *)

\* ceil(n / PageSize)
PagesFor(n) == (n + PageSize - 1) \div PageSize

\* C8: list_all_playlists returns all N playlists of the channel in the
\* provider's order after exactly ceil(N/50) requests (3 for N = 120), one
\* request when the first page is empty; no page token is used twice.
C8_AllPagesOnce ==
    /\ \A a, b \in 1..Len(tokenLog) : tokenLog[a] = tokenLog[b] => a = b
    /\ Len(tokenLog) <= IF channelPlaylists = <<>> THEN 1 ELSE PagesFor(Len(channelPlaylists))
    /\ plPc = "done" =>
         /\ playlists = channelPlaylists
         /\ playlists = list_all_playlists(channelPlaylists)
         /\ Len(channelPlaylists) > 0 => Len(tokenLog) = PagesFor(Len(channelPlaylists))
         /\ Len(channelPlaylists) = 120 => Len(tokenLog) = 3 /\ Len(playlists) = 120
         /\ Len(channelPlaylists) = 0 => Len(tokenLog) = 1 /\ playlists = <<>>

\* witness of C8: the enumeration of a channel of 120 playlists is over
C8_Witness == plPc = "done" /\ Len(channelPlaylists) = 120 /\ Len(tokenLog) = 3

-----------------------------------------------------------------------------
(* discover_resources.py: fetch_youtube_playlists_by_title, __main__ *)

\* what the provider holds for a channel handle: the items of the channel
\* lookup and the channel's playlists
World(items, pls) == [items |-> items, playlists |-> pls]
OneChannel == <<[id |-> "UC1"]>>
ChannelWorlds ==
    { World(<<>>, <<>>),
      World(OneChannel, <<>>),
      World(OneChannel, <<Playlist("PL1", <<"Lecture", "Videos">>),
                          Playlist("PL2", <<"Recitation", "Videos">>),
                          Playlist("PL3", <<"Exam", "Review">>)>>),
      World(OneChannel, <<Playlist("PL1", <<"Lecture", "Videos">>),
                          Playlist("PL4", <<"Lecture", "Videos">>)>>),
      World(OneChannel, <<Playlist("PL5", <<"LECTURE", "VIDEOS">>),
                          Playlist("PL3", <<"Exam", "Review">>)>>) }

\* the lists of desired title substrings a channel is configured with
DesiredLists == {<<<<"lecture">>>>, <<<<"Videos">>>>, <<<<"lecture">>, <<"videos">>>>}

\* found_playlists[title] = id: a dict keeps the place of a key it already holds
RECURSIVE DictSet(_, _, _)
DictSet(d, key, val) ==
    IF d = <<>> THEN <<[key |-> key, val |-> val]>>
    ELSE IF Head(d).key = key THEN <<[key |-> key, val |-> val]>> \o Tail(d)
    ELSE <<Head(d)>> \o DictSet(Tail(d), key, val)

\* desired.lower() in title.lower()
FuzzyMatch(desired, title) == Contains(Lower(title), Lower(desired))

\* `for pl in all_playlists` for one desired substring
RECURSIVE MatchPlaylists(_, _, _)
MatchPlaylists(found, desired, pls) ==
    IF pls = <<>> THEN found
    ELSE MatchPlaylists(
            IF FuzzyMatch(desired, Head(pls).title)
            THEN DictSet(found, Head(pls).title, Head(pls).id) ELSE found,
            desired, Tail(pls))

\* `for desired in playlist_titles`: found_playlists
RECURSIVE FoundPlaylists(_, _, _)
FoundPlaylists(found, titles, pls) ==
    IF titles = <<>> THEN found
    ELSE FoundPlaylists(MatchPlaylists(found, Head(titles), pls), Tail(titles), pls)

\* fetch_videos_from_playlist: the provider holds one video per playlist
fetch_videos_from_playlist(playlist_id, handle, playlist_title) ==
    <<[url |-> <<"https://www.youtube.com/watch?v=", playlist_id>>, type |-> "video",
       subtype |-> "lecture", playlist_title |-> playlist_title,
       channel_handle |-> handle]>>

\* `for title, playlist_id in found_playlists.items()`: all_videos
RECURSIVE AllVideos(_, _)
AllVideos(found, handle) ==
    IF found = <<>> THEN <<>>
    ELSE fetch_videos_from_playlist(Head(found).val, handle, Head(found).key)
         \o AllVideos(Tail(found), handle)

\* fetch_youtube_playlists_by_title(handle, playlist_titles) against `world`:
\* what it returns or raises, and the playlist ids it listed the videos of
fetch_youtube_playlists_by_title(handle, playlist_titles, world) ==
    LET ch == resolve_channel_id(world.items) IN
    IF ch.raised
    THEN [raised |-> TRUE, exc |-> ch.exc, all_videos |-> <<>>, listed |-> <<>>,
          all_playlists |-> <<>>]
    ELSE LET all_playlists == list_all_playlists(world.playlists)
             found == FoundPlaylists(<<>>, playlist_titles, all_playlists) IN
         [raised |-> FALSE, exc |-> None, all_videos |-> AllVideos(found, handle),
          listed |-> [k \in 1..Len(found) |-> found[k].val],
          all_playlists |-> all_playlists]

\* what scrape_ocw_pdfs(handle) may return: nothing, or a pdf of the course
CrawlResults(handle) ==
    {<<>>, <<[url |-> <<"https://ocw.mit.edu", "/courses/", handle, ".pdf">>, type |-> "pdf",
              subtype |-> "notes", course_handle |-> handle,
              page_url |-> <<"https://ocw.mit.edu", "/courses/", handle, "/">>]>>}

Configs ==
    {[ocw_courses |-> [k \in 1..n |-> k], youtube_playlists |-> yp] :
        n \in 0..MaxCourses, yp \in SeqsUpTo(DesiredLists, MaxChannels)}

\* ShouldSave without the test: the manifest is saved whatever it holds
ShouldSaveAlways(rs) == TRUE

\* if all_resources:
ShouldSave(rs) == rs # <<>>

InitDiscovery ==
    /\ IngestIdle /\ CrawlIdle /\ PlaylistsIdle
    /\ cfg \in Configs
    /\ apiKey \in BOOLEAN
    /\ all_resources = <<>>
    /\ d_i = 1 /\ d_j = 1
    /\ discPc = "run"
    /\ discError = None
    /\ writes = <<>>
    /\ lastCall = NoCall
    /\ coursesDone = {} /\ channelsDone = {} /\ zeroAt = {}

\* for handle in cfg.get("ocw_courses", []): all_resources.extend(scrape_ocw_pdfs(handle))
DiscCourse ==
    /\ discPc = "run"
    /\ d_i <= Len(cfg.ocw_courses)
    /\ \E found \in CrawlResults(cfg.ocw_courses[d_i]) :
         all_resources' = all_resources \o found
    /\ coursesDone' = coursesDone \cup {d_i}
    /\ d_i' = d_i + 1
    /\ UNCHANGED <<cfg, apiKey, d_j, discPc, discError, writes, lastCall, channelsDone, zeroAt>>
    /\ UNCHANGED <<ingestVars, crawlVars, plVars>>

\* if YOUTUBE_API_KEY: for handle, playlist_titles in ...items():
\*     all_resources.extend(fetch_youtube_playlists_by_title(handle, playlist_titles))
DiscChannel ==
    /\ discPc = "run"
    /\ d_i > Len(cfg.ocw_courses)
    /\ apiKey
    /\ d_j <= Len(cfg.youtube_playlists)
    /\ \E world \in ChannelWorlds :
         LET titles == cfg.youtube_playlists[d_j]
             r == fetch_youtube_playlists_by_title(d_j, titles, world) IN
         /\ lastCall' = [handle |-> d_j, titles |-> titles, items |-> world.items,
                         all_playlists |-> r.all_playlists, listed |-> r.listed,
                         raised |-> r.raised]
         /\ zeroAt' = IF world.items = <<>> THEN zeroAt \cup {d_j} ELSE zeroAt
         /\ IF r.raised
            THEN /\ discPc' = "crashed"
                 /\ discError' = r.exc
                 /\ UNCHANGED <<all_resources, d_j, channelsDone>>
            ELSE /\ all_resources' = all_resources \o r.all_videos
                 /\ channelsDone' = channelsDone \cup {d_j}
                 /\ d_j' = d_j + 1
                 /\ UNCHANGED <<discPc, discError>>
    /\ UNCHANGED <<cfg, apiKey, d_i, writes, coursesDone>>
    /\ UNCHANGED <<ingestVars, crawlVars, plVars>>

\* if all_resources: save_to_s3(all_resources); the put may raise
DiscSave ==
    /\ discPc = "run"
    /\ d_i > Len(cfg.ocw_courses)
    /\ ~apiKey \/ d_j > Len(cfg.youtube_playlists)
    /\ IF ShouldSave(all_resources)
       THEN \E putOk \in BOOLEAN :
              IF putOk
              THEN /\ writes' = Append(writes, all_resources)
                   /\ discPc' = "done"
                   /\ UNCHANGED discError
              ELSE /\ discPc' = "crashed"
                   /\ discError' = <<"ClientError">>
                   /\ UNCHANGED writes
       ELSE /\ discPc' = "done"
            /\ UNCHANGED <<writes, discError>>
    /\ UNCHANGED <<cfg, apiKey, all_resources, d_i, d_j, lastCall, coursesDone,
                   channelsDone, zeroAt>>
    /\ UNCHANGED <<ingestVars, crawlVars, plVars>>

NextDiscovery == DiscCourse \/ DiscChannel \/ DiscSave

SpecDiscovery == InitDiscovery /\ [][NextDiscovery]_vars

-----------------------------------------------------------------------------
(* Claims about the channel chain and the discovery orchestrator *)

DiscEnded == discPc \in {"done", "crashed"}

\* C6 (as claimed): a channel lookup that returns no item fails with
\* NotFoundError.
C6_ZeroItemsRaisesNotFound ==
    (lastCall.handle # 0 /\ lastCall.items = <<>>) =>
        /\ lastCall.raised
        /\ discError = <<"NotFoundError">>

\* C7 (as claimed): a channel that resolves to no item ends only its own
\* branch: the channels after it are still processed, and the run still
\* persists what it has gathered.
C7_ZeroResultIsolated ==
    \A j \in zeroAt :
        DiscEnded =>
            /\ \A k \in (j + 1)..Len(cfg.youtube_playlists) : k \in channelsDone
            /\ (all_resources # <<>> /\ discError # <<"ClientError">>) =>
                  writes = <<all_resources>>

\* the ids of the enumerated playlists a desired substring matches
MatchingIds(titles, pls) ==
    {pls[k].id : k \in {n \in 1..Len(pls) :
                          \E t \in 1..Len(titles) : FuzzyMatch(titles[t], pls[n].title)}}

\* C9 (as claimed): the playlists whose videos are listed are exactly the
\* enumerated playlists whose title holds a desired substring, whatever the
\* case, each listed once; two different playlists that match are both listed.
C9_MatchedPlaylistsListedOnce ==
    (lastCall.handle # 0 /\ ~lastCall.raised) =>
        /\ {lastCall.listed[k] : k \in 1..Len(lastCall.listed)}
              = MatchingIds(lastCall.titles, lastCall.all_playlists)
        /\ \A a, b \in 1..Len(lastCall.listed) :
              lastCall.listed[a] = lastCall.listed[b] => a = b

-----------------------------------------------------------------------------
(* ingestion.py *)

Types == {"pdf", "video", "other"}

\* a Resource of the manifest: its url (here the manifest position) and type
Resource(u, t) == [url |-> u, type |-> t]

Manifests ==
    UNION {{[k \in 1..n |-> Resource(k, ts[k])] : ts \in [1..n -> Types]} : n \in 0..MaxManifest}

\* the points where upload_youtube_audio_with_chapters can raise
FailPoints == {"none", "acquire", "nofile", "upload_audio", "upload_chapters"}

\* str(e) of the exception raised at a fail point
ExcMessage(failAt, url) ==
    CASE failAt = "acquire"         -> <<"yt-dlp failed for", url>>
      [] failAt = "nofile"          -> <<"No file downloaded for", url>>
      [] failAt = "upload_audio"    -> <<"Failed to upload audio of", url>>
      [] failAt = "upload_chapters" -> <<"put_object failed for chapters of", url>>

audio_key_of(url) == <<"audio/", url, ".m4a">>
chapters_key_of(url) == <<"audio/", url, "_chapters.json">>

\* upload_youtube_audio_with_chapters(video_url): what it returns or raises and
\* the keys it has put in the bucket by then. hasChapters and failAt are the
\* behaviour of the collaborators (yt-dlp, the storage client) on this call.
upload_youtube_audio_with_chapters(url, hasChapters, failAt) ==
    IF failAt \in {"acquire", "nofile", "upload_audio"}
    THEN [raised |-> TRUE, msg |-> ExcMessage(failAt, url),
          audio_key |-> None, chapters_key |-> None, puts |-> {}]
    ELSE IF hasChapters /\ failAt = "upload_chapters"
    THEN [raised |-> TRUE, msg |-> ExcMessage(failAt, url),
          audio_key |-> None, chapters_key |-> None, puts |-> {audio_key_of(url)}]
    ELSE [raised |-> FALSE, msg |-> None,
          audio_key |-> audio_key_of(url),
          chapters_key |-> IF hasChapters THEN chapters_key_of(url) ELSE None,
          puts |-> {audio_key_of(url)}
                   \cup (IF hasChapters THEN {chapters_key_of(url)} ELSE {})]

\* enriched = dict(r)
Enriched(r) ==
    [url |-> r.url, type |-> r.type, status |-> "<absent>", reason |-> Absent,
     s3_key |-> Absent, chapters_key |-> Absent, uploaded_at |-> Absent]

\* enriched.update({...}) of the success branch
UpdateSuccess(e, audio_key, chapters_key) ==
    [e EXCEPT !.s3_key = audio_key, !.chapters_key = chapters_key,
              !.uploaded_at = <<"utcnow">>, !.status = "success"]

\* UpdateOutcome with the reason left out of the update
UpdateOutcomeNoReason(e, st, why) == [e EXCEPT !.status = st]

\* enriched.update({"status": st, "reason": why})
UpdateOutcome(e, st, why) == [e EXCEPT !.status = st, !.reason = why]

\* the outcome of one pass of the loop body: whether the record is appended,
\* whether the exception leaves the loop, and what reached the bucket
Body(rec, app, abort, puts, rs) ==
    [rec |-> rec, append |-> app, abort |-> abort, puts |-> puts, raised |-> rs]

\* OnException without the except clause: the exception leaves the loop
OnExceptionPropagates(e, msg, puts) == Body(e, FALSE, TRUE, puts, TRUE)

\* except Exception as e: enriched.update({"status": "failed", "reason": str(e)})
OnException(e, msg, puts) == Body(UpdateOutcome(e, "failed", msg), TRUE, FALSE, puts, TRUE)

\* the body of `for r in resources`
LoopBody(r, hasChapters, failAt) ==
    LET e == Enriched(r) IN
    IF r.type = "pdf" THEN Body(e, FALSE, FALSE, {}, FALSE)          \* continue
    ELSE IF r.type = "video" THEN
        LET h == upload_youtube_audio_with_chapters(r.url, hasChapters, failAt) IN
        IF h.raised THEN OnException(e, h.msg, h.puts)
        ELSE IF h.audio_key # None
             THEN Body(UpdateSuccess(e, h.audio_key, h.chapters_key), TRUE, FALSE, h.puts, FALSE)
             ELSE Body(UpdateOutcome(e, "failed", <<"upload returned None">>), TRUE, FALSE, h.puts, FALSE)
    ELSE Body(UpdateOutcome(e, "skipped", <<"unknown type">>), TRUE, FALSE, {}, FALSE)

HasStatus(st, r) == r.status = st
NumWithStatus(recs, st) == Cardinality({k \in 1..Len(recs) : HasStatus(st, recs[k])})

\* ingestion_metadata
IngestionMetadata(res, proc) ==
    [num_total   |-> Len(res),
     num_success |-> NumWithStatus(proc, "success"),
     num_failed  |-> NumWithStatus(proc, "failed"),
     resources   |-> proc]

JobKey == <<"metadata/ingestion/ingestion_", "timestamp", ".json">>

InitIngest ==
    /\ CrawlIdle /\ PlaylistsIdle /\ DiscoveryIdle
    /\ resources \in Manifests
    /\ ing_i = 1
    /\ processed = <<>>
    /\ s3_ingest = {}
    /\ job = NoJob
    /\ ingPc = "loop"
    /\ raisedAt = {}
    /\ dispatched = {}
    /\ bucketSet \in BOOLEAN

\* with S3_BUCKET unset the storage client is called with Bucket=None, which it
\* refuses: no upload of the handler gets through
HandlerCanFailAt(failAt) == bucketSet \/ failAt \in {"acquire", "nofile", "upload_audio"}

\* one pass of `for r in resources`
IngestItem ==
    /\ ingPc = "loop"
    /\ ing_i <= Len(resources)
    /\ \E hasChapters \in BOOLEAN, failAt \in FailPoints :
         LET b == LoopBody(resources[ing_i], hasChapters, failAt) IN
         /\ HandlerCanFailAt(failAt)
         /\ processed' = IF b.append THEN Append(processed, b.rec) ELSE processed
         /\ s3_ingest' = s3_ingest \cup b.puts
         /\ raisedAt' = IF b.raised THEN raisedAt \cup {ing_i} ELSE raisedAt
         /\ dispatched' = dispatched \cup {ing_i}
         /\ ingPc' = IF b.abort THEN "aborted" ELSE "loop"
         /\ ing_i' = IF b.abort THEN ing_i ELSE ing_i + 1
    /\ UNCHANGED <<resources, job, bucketSet>>
    /\ UNCHANGED <<crawlVars, plVars, discVars>>

\* after the loop: ingestion_metadata is built and put in the bucket; the put
\* may raise, and the run then ends without a persisted job
IngestFinalize ==
    /\ ingPc = "loop"
    /\ ing_i > Len(resources)
    /\ \E putOk \in BOOLEAN :
         /\ putOk => bucketSet
         /\ IF putOk
            THEN /\ job' = <<IngestionMetadata(resources, processed)>>
                 /\ s3_ingest' = s3_ingest \cup {JobKey}
                 /\ ingPc' = "done"
            ELSE /\ ingPc' = "put_failed"
                 /\ UNCHANGED <<job, s3_ingest>>
    /\ UNCHANGED <<resources, ing_i, processed, raisedAt, dispatched, bucketSet>>
    /\ UNCHANGED <<crawlVars, plVars, discVars>>

NextIngest == IngestItem \/ IngestFinalize

SpecIngest == InitIngest /\ [][NextIngest]_vars

-----------------------------------------------------------------------------
(* Claims about run_ingestion *)

\* the records of the manifest item at position i
RecordsOf(recs, i) == {k \in 1..Len(recs) : recs[k].url = i}

TheJob == job[1]

IngestRunEnded == ingPc # "loop"

FiveVideos == [k \in 1..5 |-> Resource(k, "video")]

\* C1: an item whose handler raises gets a record with status failed and a
\* non-empty reason, the loop body still runs for every item after it, and a
\* manifest of 5 videos where only item 3 raises is persisted as a job with
\* num_total = 5, num_success = 4, num_failed = 1.
C1_PartialFailureIsolated ==
    /\ \A i \in raisedAt :
          /\ \E k \in RecordsOf(processed, i) :
                /\ processed[k].status = "failed"
                /\ processed[k].reason \notin {Absent, None, EmptyStr}
          /\ IngestRunEnded => \A j \in (i + 1)..Len(resources) : j \in dispatched
    /\ (job # NoJob /\ resources = FiveVideos /\ raisedAt = {3}) =>
          /\ TheJob.num_total = 5 /\ TheJob.num_success = 4 /\ TheJob.num_failed = 1
          /\ TheJob.resources[3].status = "failed"

\* witness of C1: a run has ended after a handler raised on an item that has
\* later items, and the 5-video manifest with item 3 failing was persisted
C1_Witness ==
    /\ job # NoJob /\ resources = FiveVideos /\ raisedAt = {3}

\* C2 (as claimed): the persisted job's num_total is the number of its
\* records and num_total = num_success + num_failed + #skipped.
C2_CountsPartitionRecords ==
    job # NoJob =>
        /\ TheJob.num_total = Len(TheJob.resources)
        /\ TheJob.num_total = TheJob.num_success + TheJob.num_failed
                             + NumWithStatus(TheJob.resources, "skipped")

\* C3 (as claimed): every manifest entry, pdf entries included, has exactly one
\* record in the persisted job, in manifest order, and a pdf entry's record
\* has status skipped.
C3_PdfRecordedAsSkipped ==
    job # NoJob =>
        /\ Len(TheJob.resources) = Len(resources)
        /\ \A i \in 1..Len(resources) :
              /\ i <= Len(TheJob.resources) => TheJob.resources[i].url = resources[i].url
              /\ resources[i].type = "pdf" =>
                    \E k \in RecordsOf(TheJob.resources, i) : TheJob.resources[k].status = "skipped"

\* C11 (as claimed): with a required setting missing, the ingestion run stops
\* with a configuration error before any work: the loop body runs for no item
\* (no media is acquired) and no storage write is attempted.
C11_MissingConfigAbortsBeforeWork ==
    ~bucketSet => (dispatched = {} /\ ingPc \in {"loop", "config_error"})

\* C13: in every persisted job a record holds a reason exactly when its status
\* is not success: failed and skipped records have one, success records none.
C13_ReasonIffNotSuccess ==
    job # NoJob =>
        \A k \in 1..Len(TheJob.resources) :
            /\ TheJob.resources[k].status \in {"success", "failed", "skipped"}
            /\ (TheJob.resources[k].reason # Absent) <=> (TheJob.resources[k].status # "success")

\* witness of C13: a persisted job holds a success, a failed and a skipped record
C13_Witness ==
    /\ job # NoJob
    /\ \A st \in {"success", "failed", "skipped"} : NumWithStatus(TheJob.resources, st) >= 1

\* C15 (as claimed): a record has uploaded_at exactly when an upload for its
\* resource was made and completed; a record without uploaded_at has no
\* artifact in the bucket.
C15_UploadedAtIffArtifactStored ==
    \A k \in 1..Len(processed) :
        (processed[k].uploaded_at # Absent) <=> (audio_key_of(processed[k].url) \in s3_ingest)

====
